---- MODULE Spec2Model ----
(***************************************************************************)
(* A model of wplace_capture.py: the command-line run that projects a      *)
(* share link to a centre tile, builds the square grid of tiles around it, *)
(* downloads every tile into a shared tile directory with bounded retries  *)
(* and zero-length markers, and stitches the directory into one canvas.    *)
(*                                                                         *)
(* Units: angles are integers in tenths of a degree, durations are         *)
(* integers in milliseconds, file contents are sequences of small          *)
(* naturals (bytes).                                                       *)
(***************************************************************************)
EXTENDS Integers, Sequences, FiniteSets, TLC

VARIABLES
    store,        \* the tile directory: file name (tile x, y) -> bytes
    runs,         \* how many runs of the program have been started
    cells,        \* how many grid cells the runs started so far have had
    pc,           \* where the current run is
    args,         \* the parsed command line of the current run
    coords_meta,  \* main's list of (x, y, dx, dy)
    index,        \* the download loop's 1-based position in coords_meta
    attempt,      \* download_tile's loop variable (0: not in download_tile)
    fetchLog,     \* what the handling of the latest cell did, in order
    written,      \* the tiles written during the current run, in order
    netUsed,      \* whether the current run has issued a GET request
    paced,        \* how many pacing sleeps the current run has made
    printed,      \* the progress lines printed by the current run, in order
    canvas,       \* the stitched image of the current run
    outFile,      \* the output image written by the current run, NoImage before img.save
    exitCode,     \* the process's exit status, read when pc = "done"
    probe         \* input and result of a stand-alone function application

vars == <<store, runs, cells, pc, args, coords_meta, index, attempt, fetchLog,
          written, netUsed, paced, printed, canvas, outFile, exitCode, probe>>

mainVars == <<store, runs, cells, pc, args, coords_meta, index, attempt, fetchLog,
              written, netUsed, paced, printed, canvas, outFile, exitCode>>

-----------------------------------------------------------------------------
(* Bounds of the model.                                                    *)

MaxGrid == 2          \* largest --grid-size of a run
MaxRetries == 3       \* largest --retries of a run
MaxRuns == 2          \* runs that share the tile directory
MaxCells == 8         \* grid cells of all the runs of one behaviour together
MaxProbeGrid == 4     \* largest grid size given to the grid functions alone
MaxProbeZoom == 2     \* largest zoom given to wrap_clamp_tile alone

(* Program constants.                                                      *)

TILE_ZOOM == 11
DEFAULT_FALLBACK_TILE == <<1000, 1000>>
BACKOFF_MS == 500     \* the factor 0.5 (seconds) of the backoff sleep
MERCATOR_MAX == 851   \* 85.05112878 degrees, rounded up to tenths

-----------------------------------------------------------------------------
(* Python helpers.                                                         *)

Pow2(z) == 2 ^ z

Min2(a, b) == IF b < a THEN b ELSE a
Max2(a, b) == IF b > a THEN b ELSE a

\* int(): truncation toward zero of the quotient a / b, b > 0
TruncDiv(a, b) == IF a >= 0 THEN a \div b ELSE -((-a) \div b)

\* range(a, b) as a list
Range(a, b) == [i \in 1..(b - a) |-> a + i - 1]

-----------------------------------------------------------------------------
(* parse_wplace_url.  A URL is a record: outer is the query string of the  *)
(* URL itself (parameter -> first value), place tells whether the URL      *)
(* holds "place=", and inner is the query string of the link that follows  *)
(* it.  A value is text: <<"num", v>> is the text of the number v (tenths  *)
(* of a degree), <<"text">> is text that float() rejects.  The result is   *)
(* [ok |-> FALSE] when the function raises.                                *)

FloatOk(text) == text[1] = "num"
FloatOf(text) == text[2]

LatLng(qs) ==
    IF FloatOk(qs["lat"]) /\ FloatOk(qs["lng"])
    THEN [ok |-> TRUE, lat |-> FloatOf(qs["lat"]), lng |-> FloatOf(qs["lng"])]
    ELSE [ok |-> FALSE]                                 \* float(): ValueError

parse_wplace_url(url) ==
    IF DOMAIN url.outer # {} /\ {"lat", "lng"} \subseteq DOMAIN url.outer
    THEN LatLng(url.outer)
    ELSE IF url.place
    THEN IF {"lat", "lng"} \subseteq DOMAIN url.inner
         THEN LatLng(url.inner)
         ELSE [ok |-> FALSE]                            \* qs2["lat"]: KeyError
    ELSE [ok |-> FALSE]                                 \* ValueError

-----------------------------------------------------------------------------
(* latlon_to_tile.  The Mercator ordinate                                  *)
(*   (1 - log(tan(lat) + 1/cos(lat)) / pi) / 2                             *)
(* is tabulated in millionths for the sampled latitudes, from the values   *)
(* the float expression takes; at the clamp latitude it is just below 0    *)
(* (north) and just above 1 (south).                                       *)

MercatorMicro(lat) ==
    CASE lat = MERCATOR_MAX  -> -1
      [] lat = 450           -> 359725
      [] lat = 0             -> 500000
      [] lat = -450          -> 640275
      [] lat = -MERCATOR_MAX -> 1000001

\* the column taken without the modulo
latlon_to_tile_nomod(lat, lon, z) ==
    LET clat == Max2(Min2(lat, MERCATOR_MAX), -MERCATOR_MAX)
        n == Pow2(z)
        x == TruncDiv((lon + 1800) * n, 3600)
        y == Max2(0, Min2(n - 1, TruncDiv(MercatorMicro(clat) * n, 1000000)))
    IN <<x, y>>

latlon_to_tile(lat, lon, z) ==
    LET clat == Max2(Min2(lat, MERCATOR_MAX), -MERCATOR_MAX)
        n == Pow2(z)
        x == TruncDiv((lon + 1800) * n, 3600) % n
        y == Max2(0, Min2(n - 1, TruncDiv(MercatorMicro(clat) * n, 1000000)))
    IN <<x, y>>

-----------------------------------------------------------------------------
(* wrap_clamp_tile                                                         *)

\* both axes wrapped
wrap_clamp_tile_wrapy(x, y, z) == LET n == Pow2(z) IN <<x % n, y % n>>

wrap_clamp_tile(x, y, z) ==
    LET n == Pow2(z) IN <<x % n, Max2(0, Min2(n - 1, y))>>

-----------------------------------------------------------------------------
(* The grid builder of main: the offset ranges and the nested loops that   *)
(* fill coords_meta.                                                       *)

Half(n) == n \div 2

\* the odd-size range for every size
OffsetRange_symmetric(n) == Range(-Half(n), Half(n) + 1)

OffsetRange(n) ==
    IF n % 2 = 0 THEN Range(-Half(n), Half(n))
                 ELSE Range(-Half(n), Half(n) + 1)

\* the two offsets exchanged
Cell_swapped(cx, cy, dx, dy, z) ==
    LET w == wrap_clamp_tile(cx + dy, cy + dx, z)
    IN [x |-> w[1], y |-> w[2], dx |-> dy, dy |-> dx]

Cell(cx, cy, dx, dy, z) ==
    LET w == wrap_clamp_tile(cx + dx, cy + dy, z)
    IN [x |-> w[1], y |-> w[2], dx |-> dx, dy |-> dy]

RECURSIVE InnerLoop(_, _, _, _, _, _, _)
InnerLoop(acc, cx, cy, dy, dxs, i, z) ==
    IF i > Len(dxs) THEN acc
    ELSE InnerLoop(Append(acc, Cell(cx, cy, dxs[i], dy, z)), cx, cy, dy, dxs, i + 1, z)

RECURSIVE OuterLoop(_, _, _, _, _, _, _)
OuterLoop(acc, cx, cy, dys, dxs, j, z) ==
    IF j > Len(dys) THEN acc
    ELSE OuterLoop(InnerLoop(acc, cx, cy, dys[j], dxs, 1, z), cx, cy, dys, dxs, j + 1, z)

BuildGrid(cx, cy, n, z) ==
    OuterLoop(<<>>, cx, cy, OffsetRange(n), OffsetRange(n), 1, z)

-----------------------------------------------------------------------------
(* parse_hex_color.  A string is a sequence of one-character strings.  The *)
(* sampled strings hold hex digits, other letters, "#", "x"/"X" and        *)
(* leading or trailing blanks; int(piece, 16) accepts a piece of these     *)
(* exactly when both characters are hex digits.                            *)

HexDigits == <<"0", "1", "2", "3", "4", "5", "6", "7", "8", "9",
               "a", "b", "c", "d", "e", "f">>

Lower(c) == CASE c = "A" -> "a" [] c = "B" -> "b" [] c = "C" -> "c"
              [] c = "D" -> "d" [] c = "E" -> "e" [] c = "F" -> "f"
              [] c = "X" -> "x" [] OTHER -> c

IsHexDigit(c) == \E i \in 1..16 : HexDigits[i] = Lower(c)
HexDigitVal(c) == (CHOOSE i \in 1..16 : HexDigits[i] = Lower(c)) - 1

RECURSIVE Strip(_)
Strip(s) ==
    IF s = <<>> THEN s
    ELSE IF Head(s) = " " THEN Strip(Tail(s))
    ELSE IF s[Len(s)] = " " THEN Strip(SubSeq(s, 1, Len(s) - 1))
    ELSE s

StartsWith(s, c) == Len(s) >= 1 /\ s[1] = c

\* int(piece, 16) for a piece of two characters
PieceOk(a, b) == IsHexDigit(a) /\ IsHexDigit(b)
PieceVal(a, b) == 16 * HexDigitVal(a) + HexDigitVal(b)

parse_hex_color(s) ==
    LET t0 == Strip(s)
        t1 == IF StartsWith(t0, "#") THEN Tail(t0) ELSE t0
        t  == IF Len(t1) >= 2 /\ Lower(t1[1]) = "0" /\ Lower(t1[2]) = "x"
              THEN SubSeq(t1, 3, Len(t1)) ELSE t1
    IN  IF Len(t) = 3
        THEN IF \A i \in 1..3 : PieceOk(t[i], t[i])
             THEN [ok |-> TRUE,
                   rgba |-> <<PieceVal(t[1], t[1]), PieceVal(t[2], t[2]),
                              PieceVal(t[3], t[3]), 255>>]
             ELSE [ok |-> FALSE]
        ELSE IF Len(t) = 6
        THEN IF \A i \in {1, 3, 5} : PieceOk(t[i], t[i + 1])
             THEN [ok |-> TRUE,
                   rgba |-> <<PieceVal(t[1], t[2]), PieceVal(t[3], t[4]),
                              PieceVal(t[5], t[6]), 255>>]
             ELSE [ok |-> FALSE]
        ELSE IF Len(t) = 8
        THEN IF \A i \in {1, 3, 5, 7} : PieceOk(t[i], t[i + 1])
             THEN [ok |-> TRUE,
                   rgba |-> <<PieceVal(t[1], t[2]), PieceVal(t[3], t[4]),
                              PieceVal(t[5], t[6]), PieceVal(t[7], t[8])>>]
             ELSE [ok |-> FALSE]
        ELSE [ok |-> FALSE]

-----------------------------------------------------------------------------
(* The tile directory and safe_open_png.  A file that decodes is the four  *)
(* bytes <<PNG_MAGIC, width, height, shade>>: an image of that size, every *)
(* pixel (shade, shade, shade, 255).  Any other content does not decode.   *)

PNG_MAGIC == 80

TileKey(x, y) == <<x, y>>                 \* the file tile_{x}_{y}.png
CellKey(c) == TileKey(c.x, c.y)

Exists(st, k) == k \in DOMAIN st
Size(st, k) == Len(st[k])

\* a write that leaves its file alone in the directory
WriteBytes_alone(st, k, bytes) == [j \in {k} |-> bytes]

\* a write that leaves an existing file alone
WriteBytes_exclusive(st, k, bytes) ==
    IF k \in DOMAIN st THEN st
    ELSE [j \in DOMAIN st \cup {k} |-> IF j = k THEN bytes ELSE st[j]]

WriteBytes(st, k, bytes) ==
    [j \in DOMAIN st \cup {k} |-> IF j = k THEN bytes ELSE st[j]]

Decodes(bytes) == Len(bytes) = 4 /\ bytes[1] = PNG_MAGIC /\ bytes[2] >= 1 /\ bytes[3] >= 1

safe_open_png(st, k) ==
    IF ~Exists(st, k) \/ Size(st, k) = 0 THEN [ok |-> FALSE]
    ELSE IF Decodes(st[k])
    THEN [ok |-> TRUE, size |-> <<st[k][2], st[k][3]>>,
          rgba |-> <<st[k][4], st[k][4], st[k][4], 255>>]
    ELSE [ok |-> FALSE]

-----------------------------------------------------------------------------
(* stitch_from_folder.  An image is its size, the colour it was created    *)
(* with and the list of blocks pasted on it, each a uniform rectangle; a   *)
(* later paste covers an earlier one.  The result is [ok |-> FALSE] when   *)
(* Image.new raises (a negative size).                                     *)

TRANSPARENT == <<0, 0, 0, 0>>

\* the size of the first cell's file, or the default
FirstValidSize_firstcell(st, coords, i) ==
    IF i <= Len(coords) /\ safe_open_png(st, CellKey(coords[i])).ok
    THEN safe_open_png(st, CellKey(coords[i])).size
    ELSE DEFAULT_FALLBACK_TILE

RECURSIVE FirstValidSize(_, _, _)
FirstValidSize(st, coords, i) ==
    IF i > Len(coords) THEN DEFAULT_FALLBACK_TILE
    ELSE IF safe_open_png(st, CellKey(coords[i])).ok
    THEN safe_open_png(st, CellKey(coords[i])).size
    ELSE FirstValidSize(st, coords, i + 1)

PasteOrigin_nohalf(c, n, tw, th) == <<c.dx * tw, c.dy * th>>

PasteOrigin(c, n, tw, th) ==
    LET half == n \div 2
        col == c.dx + half
        row == c.dy + half
    IN <<col * tw, row * th>>

FillColour(bg) == IF bg.set THEN bg.rgba ELSE TRANSPARENT

PasteOf_nofill(st, c, n, tw, th, bg) ==
    LET tile == safe_open_png(st, CellKey(c))
    IN  IF ~tile.ok
        THEN [at |-> PasteOrigin(c, n, tw, th), size |-> <<tw, th>>,
              rgba |-> TRANSPARENT, fill |-> TRUE]
        ELSE [at |-> PasteOrigin(c, n, tw, th), size |-> tile.size,
              rgba |-> tile.rgba, fill |-> FALSE]

PasteOf(st, c, n, tw, th, bg) ==
    LET tile == safe_open_png(st, CellKey(c))
    IN  IF ~tile.ok
        THEN [at |-> PasteOrigin(c, n, tw, th), size |-> <<tw, th>>,
              rgba |-> FillColour(bg), fill |-> TRUE]
        ELSE [at |-> PasteOrigin(c, n, tw, th), size |-> tile.size,
              rgba |-> tile.rgba, fill |-> FALSE]

stitch_from_folder(st, coords, n, bg) ==
    LET sz == FirstValidSize(st, coords, 1)
        tw == sz[1]
        th == sz[2]
    IN  IF tw * n < 0 \/ th * n < 0 THEN [ok |-> FALSE]
        ELSE [ok |-> TRUE, size |-> <<tw * n, th * n>>, tile |-> <<tw, th>>,
              base |-> TRANSPARENT,
              pastes |-> [i \in 1..Len(coords) |-> PasteOf(st, coords[i], n, tw, th, bg)]]

\* Image.alpha_composite of one pixel over another, for the opaque and the
\* fully transparent source pixels the sampled inputs produce
Over(src, dst) == CASE src[4] = 255 -> src [] src[4] = 0 -> dst

Underlay(img, rgba) ==
    [img EXCEPT !.base = Over(img.base, rgba),
                !.pastes = [i \in 1..Len(img.pastes) |->
                              [img.pastes[i] EXCEPT !.rgba = Over(img.pastes[i].rgba, rgba)]]]

\* the pixel of an image at (px, py), inside the image
Covers(p, px, py) ==
    /\ p.at[1] <= px /\ px < p.at[1] + p.size[1]
    /\ p.at[2] <= py /\ py < p.at[2] + p.size[2]

PixelAt(img, px, py) ==
    LET hits == {i \in 1..Len(img.pastes) : Covers(img.pastes[i], px, py)}
    IN  IF hits = {} THEN img.base
        ELSE img.pastes[CHOOSE i \in hits : \A j \in hits : j <= i].rgba

-----------------------------------------------------------------------------
(* The inputs of a run: the sampled command lines.                         *)

EmptyQuery == [p \in {} |-> <<"text">>]
Num(v) == <<"num", v>>

DirectUrl(lat, lng) ==
    [outer |-> [lat |-> Num(lat), lng |-> Num(lng)], place |-> FALSE, inner |-> EmptyQuery]
WrapperUrl(lat, lng) ==
    [outer |-> [place |-> <<"text">>], place |-> TRUE,
     inner |-> [lat |-> Num(lat), lng |-> Num(lng)]]

GoodUrls ==
    { DirectUrl(900, -1800),       \* centre tile (0, 0)
      WrapperUrl(-900, 1799) }     \* centre tile (2047, 2047)

BadUrls ==
    { [outer |-> EmptyQuery, place |-> FALSE, inner |-> EmptyQuery],
      [outer |-> [lat |-> <<"text">>, lng |-> Num(0)], place |-> FALSE, inner |-> EmptyQuery],
      [outer |-> [place |-> <<"text">>], place |-> TRUE, inner |-> [lat |-> Num(0)]] }

NoHex == [given |-> FALSE, text |-> <<>>]
GoodHex == [given |-> TRUE, text |-> <<"#", "f", "5", "f">>]
BadHex == [given |-> TRUE, text |-> <<"#", "g", "g", "g">>]

\* --bg-hex and --delay, sampled together
Looks ==
    { [background_hex |-> NoHex, delay |-> 0],
      [background_hex |-> GoodHex, delay |-> 250],
      [background_hex |-> BadHex, delay |-> 0] }

GridSizes == 1..MaxGrid
BadGridSizes == {-1, 0}
RetryCounts == {-1, 0, 1, MaxRetries}

CommandLine(url, n, retries, look, skip) ==
    [url |-> url, grid_size |-> n, retries |-> retries, delay |-> look.delay,
     background_hex |-> look.background_hex, skip_existing |-> skip]

ArgSets ==
    { CommandLine(u, n, r, l, s) :
        u \in GoodUrls, n \in GridSizes, r \in RetryCounts, l \in Looks, s \in BOOLEAN }
    \cup { CommandLine(u, 1, 1, l, FALSE) : u \in BadUrls, l \in Looks }
    \cup { CommandLine(DirectUrl(900, -1800), n, 1, l, FALSE) : n \in BadGridSizes, l \in Looks }

(* The remote tile source: what one GET can come to.  A failure is a       *)
(* network error, a timeout or a status that raise_for_status rejects.     *)

Bodies == { <<>>, <<PNG_MAGIC, 1, 1, 7>> }

Outcomes == {[ok |-> FALSE, body |-> <<>>]} \cup {[ok |-> TRUE, body |-> b] : b \in Bodies}

-----------------------------------------------------------------------------
(* The state machine of main.                                              *)

NoImage == [ok |-> FALSE]
NoStore == [k \in {} |-> <<>>]

Ev(ev, n, key, data) == [ev |-> ev, n |-> n, key |-> key, data |-> data]

MainInit ==
    /\ store = NoStore
    /\ runs = 0
    /\ cells = 0
    /\ pc = "idle"
    /\ args = [url |-> DirectUrl(0, 0), grid_size |-> 1, retries |-> 1, delay |-> 0,
               background_hex |-> [given |-> FALSE, text |-> <<>>],
               skip_existing |-> FALSE]
    /\ coords_meta = <<>>
    /\ index = 1
    /\ attempt = 0
    /\ fetchLog = <<>>
    /\ written = <<>>
    /\ netUsed = FALSE
    /\ paced = 0
    /\ printed = <<>>
    /\ canvas = NoImage
    /\ outFile = NoImage
    /\ exitCode = 0

NoProbe == [op |-> "none"]

Init == MainInit /\ probe = NoProbe

\* lines 218-261: the command line is parsed, the link projected, the grid built
Launch(a) ==
    /\ pc \in {"idle", "done"}
    /\ runs < MaxRuns
    /\ cells + Max2(a.grid_size, 0) * Max2(a.grid_size, 0) <= MaxCells
    /\ runs' = runs + 1
    /\ cells' = cells + Max2(a.grid_size, 0) * Max2(a.grid_size, 0)
    /\ args' = a
    /\ index' = 1
    /\ attempt' = 0
    /\ fetchLog' = <<>>
    /\ written' = <<>>
    /\ netUsed' = FALSE
    /\ paced' = 0
    /\ printed' = <<>>
    /\ canvas' = NoImage
    /\ outFile' = NoImage
    /\ LET ll == parse_wplace_url(a.url)
       IN  IF ~ll.ok
           THEN /\ pc' = "done"
                /\ exitCode' = 1
                /\ coords_meta' = <<>>
           ELSE LET c == latlon_to_tile(ll.lat, ll.lng, TILE_ZOOM)
                IN  /\ pc' = "loop"
                    /\ exitCode' = 0
                    /\ coords_meta' = BuildGrid(c[1], c[2], a.grid_size, TILE_ZOOM)
    /\ UNCHANGED <<store, probe>>

\* a cache hit that asks for a non-empty file
CacheHit_nonempty(st, k, skip) == skip /\ Exists(st, k) /\ Size(st, k) > 0

\* line 265
CacheHit(st, k, skip) == skip /\ Exists(st, k)

\* a download of every tile that is not a cache hit
NeedsDownload_always(st, k) == TRUE

\* line 268
NeedsDownload(st, k) == ~Exists(st, k) \/ Size(st, k) = 0
\* lines 265-269: whether download_tile is called for the file k
FetcherCalled(st, k, skip) == ~CacheHit(st, k, skip) /\ NeedsDownload(st, k)

\* a loop that makes its first attempt whatever the count
InRange_dowhile(att, retries) == att = 1 \/ att <= retries

\* a loop that retries until the request succeeds
InRange_forever(att, retries) == TRUE

\* line 121: whether range(1, retries + 1) holds the value att
InRange(att, retries) == att <= retries

\* lines 263-269 and 121: the loop takes the next cell and decides on the fetch
LoopStep ==
    /\ pc = "loop"
    /\ IF index > Len(coords_meta)
       THEN /\ pc' = "build"
            /\ UNCHANGED <<attempt, fetchLog>>
       ELSE LET k == CellKey(coords_meta[index])
            IN  IF FetcherCalled(store, k, args.skip_existing)
                THEN /\ fetchLog' = <<Ev("call", 0, k, <<>>)>>
                     /\ IF InRange(1, args.retries)
                        THEN attempt' = 1 /\ pc' = "get"
                        ELSE attempt' = 0 /\ pc' = "pace"
                ELSE /\ fetchLog' = <<>>
                     /\ attempt' = 0
                     /\ pc' = "pace"
    /\ UNCHANGED <<store, runs, cells, args, coords_meta, index, written, netUsed, paced,
                   printed, canvas, outFile, exitCode, probe>>

\* line 128: whether a failed attempt is the last one
\* a last-attempt test that is off by one
Exhausted_offbyone(att, retries) == att > retries

Exhausted(att, retries) == att >= retries

\* lines 122-134: one iteration of download_tile's loop, for one outcome of the GET
Get(o) ==
    /\ pc = "get"
    /\ netUsed' = TRUE
    /\ LET k == CellKey(coords_meta[index])
           sent == Append(fetchLog, Ev("get", attempt, k, <<>>))
       IN  IF o.ok
           THEN /\ store' = WriteBytes(store, k, o.body)
                /\ fetchLog' = sent \o <<Ev("ok", attempt, k, o.body),
                                         Ev("write", attempt, k, o.body)>>
                /\ written' = Append(written, k)
                /\ attempt' = 0
                /\ pc' = "pace"
           ELSE IF Exhausted(attempt, args.retries)
           THEN /\ store' = WriteBytes(store, k, <<>>)
                /\ fetchLog' = sent \o <<Ev("fail", attempt, k, <<>>),
                                         Ev("write", attempt, k, <<>>)>>
                /\ written' = Append(written, k)
                /\ IF InRange(attempt + 1, args.retries)
                   THEN attempt' = attempt + 1 /\ pc' = "get"
                   ELSE attempt' = 0 /\ pc' = "pace"
           ELSE /\ fetchLog' = Append(sent, Ev("fail", attempt, k, <<>>))
                /\ pc' = "backoff"
                /\ UNCHANGED <<store, written, attempt>>
    /\ UNCHANGED <<runs, cells, args, coords_meta, index, paced, printed, canvas, outFile,
                   exitCode, probe>>

\* line 134
\* a backoff that doubles: 0.5 * 2 ** attempt
BackoffMs_exponential(att) == BACKOFF_MS * (2 ^ att)

BackoffMs(att) == BACKOFF_MS * att

\* line 134 and line 121: the sleep, then the for loop's next value or its end
Backoff ==
    /\ pc = "backoff"
    /\ fetchLog' = Append(fetchLog, Ev("sleep", BackoffMs(attempt), CellKey(coords_meta[index]), <<>>))
    /\ IF InRange(attempt + 1, args.retries)
       THEN attempt' = attempt + 1 /\ pc' = "get"
       ELSE attempt' = 0 /\ pc' = "pace"
    /\ UNCHANGED <<store, runs, cells, args, coords_meta, index, written, netUsed, paced,
                   printed, canvas, outFile, exitCode, probe>>

\* lines 259-260: milestones in percent, and the index that triggers each
Milestones == <<25, 50, 75, 100>>
\* a trigger for an index counted from 0
NextIdxTrigger_zerobased(total, m) == Max2(1, (total * m) \div 100) + 1

NextIdxTrigger(total, m) == Max2(1, (total * m) \div 100)

\* lines 276-280
RECURSIVE PrintProgress(_, _, _, _)
PrintProgress(prn, idx, total, i) ==
    IF i > Len(Milestones) THEN prn
    ELSE LET m == Milestones[i]
         IN  IF idx >= NextIdxTrigger(total, m) /\ ~(\E j \in 1..Len(prn) : prn[j].m = m)
             THEN PrintProgress(Append(prn, [m |-> m, index |-> idx]), idx, total, i + 1)
             ELSE PrintProgress(prn, idx, total, i + 1)

\* a sleep after every cell
PacingDue_everycell(idx, total, delay) == delay > 0

\* line 272
PacingDue(idx, total, delay) == idx < total /\ delay > 0

\* lines 271-280 and the loop's step to the next cell
Pace ==
    /\ pc = "pace"
    /\ paced' = IF PacingDue(index, Len(coords_meta), args.delay) THEN paced + 1 ELSE paced
    /\ printed' = PrintProgress(printed, index, Len(coords_meta), 1)
    /\ index' = index + 1
    /\ pc' = "loop"
    /\ UNCHANGED <<store, runs, cells, args, coords_meta, attempt, fetchLog, written,
                   netUsed, canvas, outFile, exitCode, probe>>

\* line 283
BgOf(hex) ==
    IF hex.given /\ hex.text # <<>>
    THEN LET c == parse_hex_color(hex.text)
         IN  IF c.ok THEN [ok |-> TRUE, set |-> TRUE, rgba |-> c.rgba]
                     ELSE [ok |-> FALSE, set |-> TRUE, rgba |-> TRANSPARENT]
    ELSE [ok |-> TRUE, set |-> FALSE, rgba |-> TRANSPARENT]

\* lines 283-293: the colour is parsed, the tiles stitched, the image saved.
\* Saving an image of size 0 x 0 is left to the imaging library: it may
\* write the file or raise.
Build(saved) ==
    /\ pc = "build"
    /\ pc' = "done"
    /\ \E bg \in {BgOf(args.background_hex)} :
       \E img \in {IF bg.ok THEN stitch_from_folder(store, coords_meta, args.grid_size, bg)
                             ELSE NoImage} :
           IF ~bg.ok
           THEN /\ exitCode' = 1
                /\ saved
                /\ UNCHANGED <<canvas, outFile>>
           ELSE IF ~img.ok
           THEN /\ exitCode' = 1
                /\ saved
                /\ UNCHANGED <<canvas, outFile>>
           ELSE /\ canvas' = img
                /\ saved \/ img.size = <<0, 0>>
                /\ IF saved
                   THEN /\ outFile' = IF bg.set THEN Underlay(img, bg.rgba) ELSE img
                        /\ exitCode' = 0
                   ELSE /\ exitCode' = 1
                        /\ UNCHANGED outFile
    /\ UNCHANGED <<store, runs, cells, args, coords_meta, index, attempt, fetchLog, written,
                   netUsed, paced, printed, probe>>

Next ==
    \/ \E a \in ArgSets : Launch(a)
    \/ LoopStep
    \/ \E o \in Outcomes : Get(o)
    \/ Backoff
    \/ Pace
    \/ \E saved \in BOOLEAN : Build(saved)

Spec == Init /\ [][Next]_vars

-----------------------------------------------------------------------------
(* download_tile in finer steps, for a tile directory that can refuse a    *)
(* write and a run that can be interrupted.  Path.write_bytes opens the    *)
(* file for writing, which creates or truncates it, and then writes the    *)
(* bytes: a failure or an interrupt after the open leaves the file with    *)
(* the bytes that reached it.                                              *)

\* line 127 and line 131: `except Exception` catches a failed request and a
\* failed write, not KeyboardInterrupt
\* a handler for the failures of the request alone
Catches_requestonly(kind) == kind = "request"

Catches(kind) == kind \in {"request", "storage"}

\* lines 127-134: where download_tile goes on after a failure it caught
AfterFailure(att, retries) == IF Exhausted(att, retries) THEN "marker" ELSE "backoff"

FaultUrl == WrapperUrl(-900, 1799)
FaultGridSizes == {1, 2}
FaultRetryCounts == {1, 2}
FaultLooks == {l \in Looks : l.background_hex # BadHex}
FaultArgSets ==
    { CommandLine(FaultUrl, n, r, l, FALSE) :
        n \in FaultGridSizes, r \in FaultRetryCounts, l \in FaultLooks }

\* how many bytes of a body reach the file in one write
WrittenLengths(body) == {n \in {0, 2, Len(body)} : n <= Len(body)}

FirstRun(a) == runs = 0 /\ Launch(a)

\* lines 299-302: an exception that leaves main ends the process with status 1
Propagate ==
    /\ pc' = "done"
    /\ exitCode' = 1
    /\ attempt' = 0

\* lines 122-124: the request of one attempt
Request(o) ==
    /\ pc = "get"
    /\ netUsed' = TRUE
    /\ LET k == CellKey(coords_meta[index])
           sent == Append(fetchLog, Ev("get", attempt, k, <<>>))
       IN  IF o.ok
           THEN /\ fetchLog' = Append(sent, Ev("ok", attempt, k, o.body))
                /\ pc' = "open"
                /\ UNCHANGED <<attempt, exitCode>>
           ELSE /\ fetchLog' = Append(sent, Ev("fail", attempt, k, <<>>))
                /\ IF Catches("request")
                   THEN pc' = AfterFailure(attempt, args.retries)
                        /\ UNCHANGED <<attempt, exitCode>>
                   ELSE Propagate
    /\ UNCHANGED <<store, runs, cells, args, coords_meta, index, written, paced, printed,
                   canvas, outFile, probe>>

\* line 125, first half: the file is opened for writing
OpenForWrite(opened) ==
    /\ pc = "open"
    /\ LET k == CellKey(coords_meta[index])
       IN  IF opened
           THEN /\ store' = WriteBytes(store, k, <<>>)
                /\ pc' = "body"
                /\ UNCHANGED <<fetchLog, attempt, exitCode>>
           ELSE /\ fetchLog' = Append(fetchLog, Ev("wfail", attempt, k, <<>>))
                /\ IF Catches("storage")
                   THEN pc' = AfterFailure(attempt, args.retries)
                        /\ UNCHANGED <<attempt, exitCode>>
                   ELSE Propagate
                /\ UNCHANGED store
    /\ UNCHANGED <<runs, cells, args, coords_meta, index, written, netUsed, paced, printed,
                   canvas, outFile, probe>>

\* the body of the response that is being written
PendingBody == fetchLog[Len(fetchLog)].data

\* lines 125-126, second half: n bytes of the body reach the file; all of
\* them: download_tile returns; fewer: the write has failed
WriteBody(n) ==
    /\ pc = "body"
    /\ n \in WrittenLengths(PendingBody)
    /\ LET k == CellKey(coords_meta[index])
       IN  /\ store' = WriteBytes(store, k, SubSeq(PendingBody, 1, n))
           /\ IF n = Len(PendingBody)
              THEN /\ fetchLog' = Append(fetchLog, Ev("write", attempt, k, PendingBody))
                   /\ written' = Append(written, k)
                   /\ attempt' = 0
                   /\ pc' = "pace"
                   /\ UNCHANGED exitCode
              ELSE /\ fetchLog' = Append(fetchLog, Ev("wfail", attempt, k, <<>>))
                   /\ IF Catches("storage")
                      THEN pc' = AfterFailure(attempt, args.retries)
                           /\ UNCHANGED <<attempt, exitCode>>
                      ELSE Propagate
                   /\ UNCHANGED written
    /\ UNCHANGED <<runs, cells, args, coords_meta, index, netUsed, paced, printed,
                   canvas, outFile, probe>>

\* lines 129-132: the marker is written, or its failure passed over
WriteMarker(opened) ==
    /\ pc = "marker"
    /\ LET k == CellKey(coords_meta[index])
       IN  IF opened
           THEN /\ store' = WriteBytes(store, k, <<>>)
                /\ fetchLog' = Append(fetchLog, Ev("write", attempt, k, <<>>))
                /\ written' = Append(written, k)
                /\ pc' = "pace" /\ attempt' = 0
                /\ UNCHANGED exitCode
           ELSE /\ fetchLog' = Append(fetchLog, Ev("wfail", attempt, k, <<>>))
                /\ IF Catches("storage")
                   THEN pc' = "pace" /\ attempt' = 0 /\ UNCHANGED exitCode
                   ELSE Propagate
                /\ UNCHANGED <<store, written>>
    /\ UNCHANGED <<runs, cells, args, coords_meta, index, netUsed, paced, printed,
                   canvas, outFile, probe>>

WriteFailNext ==
    \/ \E a \in FaultArgSets : FirstRun(a)
    \/ LoopStep
    \/ \E o \in Outcomes : Request(o)
    \/ \E opened \in BOOLEAN : OpenForWrite(opened)
    \/ \E n \in 0..4 : WriteBody(n)
    \/ \E opened \in BOOLEAN : WriteMarker(opened)
    \/ Backoff
    \/ Pace
    \/ \E saved \in BOOLEAN : Build(saved)

SpecWriteFail == Init /\ [][WriteFailNext]_vars

(* The same steps with a tile directory that takes every write, and a      *)
(* KeyboardInterrupt that can arrive at any step of the download pass.     *)

WriteWhole == pc = "body" /\ WriteBody(Len(PendingBody))

\* lines 299-300: KeyboardInterrupt leaves download_tile and main; when it
\* arrives in the write of a body, n bytes have reached the file
Interrupt(n) ==
    /\ pc \in {"loop", "get", "open", "body", "marker", "backoff", "pace"}
    /\ index <= Len(coords_meta)
    /\ ~Catches("interrupt")
    /\ LET k == CellKey(coords_meta[index])
       IN  /\ IF pc = "body"
              THEN /\ n \in WrittenLengths(PendingBody)
                   /\ store' = WriteBytes(store, k, SubSeq(PendingBody, 1, n))
              ELSE /\ n = 0
                   /\ UNCHANGED store
           /\ fetchLog' = Append(fetchLog, Ev("interrupt", attempt, k, <<>>))
    /\ Propagate
    /\ UNCHANGED <<runs, cells, args, coords_meta, index, written, netUsed, paced, printed,
                   canvas, outFile, probe>>

InterruptNext ==
    \/ \E a \in FaultArgSets : FirstRun(a)
    \/ LoopStep
    \/ \E o \in Outcomes : Request(o)
    \/ OpenForWrite(TRUE)
    \/ WriteWhole
    \/ WriteMarker(TRUE)
    \/ Backoff
    \/ Pace
    \/ \E saved \in BOOLEAN : Build(saved)
    \/ \E n \in 0..4 : Interrupt(n)

SpecInterrupt == Init /\ [][InterruptNext]_vars

-----------------------------------------------------------------------------
(* One run under fairness.  The program is one thread and every GET        *)
(* returns or times out (the timeout of line 123), so a run that can take  *)
(* its next step takes it.                                                 *)

RunStep ==
    \/ LoopStep
    \/ \E o \in Outcomes : Get(o)
    \/ Backoff
    \/ Pace
    \/ \E saved \in BOOLEAN : Build(saved)

LiveArgSets == {a \in ArgSets : a.grid_size <= 2}

LiveNext ==
    \/ \E a \in LiveArgSets : FirstRun(a)
    \/ RunStep

SpecLive == Init /\ [][LiveNext]_vars /\ WF_vars(RunStep)

-----------------------------------------------------------------------------
(* The grid builder and the stitcher applied alone: a centre tile, a zoom  *)
(* and a grid size go through main's grid loops (lines 230-244), then the  *)
(* built cells go through stitch_from_folder over a directory that holds   *)
(* either no file or one image of the given size per cell.                 *)

ProbeZooms == (1..MaxProbeZoom) \cup {TILE_ZOOM}

ProbeCentres(z) ==
    IF z = TILE_ZOOM
    THEN {<<0, 0>>, <<0, 2047>>, <<2047, 0>>, <<2047, 2047>>, <<512, 384>>}
    ELSE (0..(Pow2(z) - 1)) \X (0..(Pow2(z) - 1))

ProbeCentreUnion == UNION {ProbeCentres(z) : z \in ProbeZooms}

ProbeTiles == {<<0, 0>>, <<1, 1>>, <<1, 2>>, <<2, 1>>}    \* <<0, 0>>: no file stored

ProbeStore(coords, tile) ==
    IF tile = <<0, 0>> THEN NoStore
    ELSE [k \in {CellKey(coords[i]) : i \in 1..Len(coords)} |->
            <<PNG_MAGIC, tile[1], tile[2], 7>>]

GridInit ==
    /\ MainInit
    /\ probe \in {[op |-> "grid", stage |-> "input", z |-> z, cx |-> c[1], cy |-> c[2],
                   n |-> n, tile |-> t, cells |-> <<>>, img |-> NoImage] :
                  z \in ProbeZooms, c \in ProbeCentreUnion,
                  n \in 1..MaxProbeGrid, t \in ProbeTiles}
    /\ <<probe.cx, probe.cy>> \in ProbeCentres(probe.z)

ProbeBuild ==
    /\ probe.op = "grid" /\ probe.stage = "input"
    /\ probe' = [probe EXCEPT !.stage = "built",
                              !.cells = BuildGrid(probe.cx, probe.cy, probe.n, probe.z)]
    /\ UNCHANGED mainVars

ProbeStitch ==
    /\ probe.op = "grid" /\ probe.stage = "built"
    /\ probe' = [probe EXCEPT !.stage = "stitched",
                              !.img = stitch_from_folder(ProbeStore(probe.cells, probe.tile),
                                                         probe.cells, probe.n,
                                                         BgOf(NoHex))]
    /\ UNCHANGED mainVars

GridNext == ProbeBuild \/ ProbeStitch

SpecGrid == GridInit /\ [][GridNext]_vars

-----------------------------------------------------------------------------
(* The stitcher applied alone to a tile directory of any content: files    *)
(* are written for some of the grid's tiles, in any order, each with an    *)
(* empty, an undecodable or a decodable content of one of two image sizes; *)
(* then stitch_from_folder is applied, and applied again.                  *)

MaxStitchGrid == 2     \* largest grid size given to the stitcher alone
MaxStitchFiles == 3    \* most files the directory holds before stitching

TruncatedPng == <<PNG_MAGIC, 1>>          \* non-empty, does not decode
SmallPng == <<PNG_MAGIC, 1, 1, 7>>        \* 1 x 1
WidePng == <<PNG_MAGIC, 2, 1, 9>>         \* 2 x 1
FileContents == {<<>>, TruncatedPng, SmallPng, WidePng}

StitchCentres == {<<512, 384>>, <<0, 0>>}

Keys(coords) == {CellKey(coords[i]) : i \in 1..Len(coords)}

\* the directories to stitch: at most MaxStitchFiles files, for tiles of the grid
Directories(coords) ==
    UNION {[S -> FileContents] :
             S \in {T \in SUBSET Keys(coords) : Cardinality(T) <= MaxStitchFiles}}

Orders(S) ==
    {p \in [1..Cardinality(S) -> S] : \A i, j \in 1..Cardinality(S) : p[i] = p[j] => i = j}

\* Path.write_bytes for every file of the directory, in the given order
RECURSIVE WriteAll(_, _, _, _)
WriteAll(st, files, order, i) ==
    IF i > Len(order) THEN st
    ELSE WriteAll(WriteBytes(st, order[i], files[order[i]]), files, order, i + 1)

StitchInit ==
    /\ MainInit
    /\ \E n \in 1..MaxStitchGrid, c \in StitchCentres, hex \in {NoHex, GoodHex} :
          LET coords == BuildGrid(c[1], c[2], n, TILE_ZOOM)
          IN  \E files \in Directories(coords) :
                probe = [op |-> "stitch", stage |-> "input", n |-> n, cells |-> coords,
                         files |-> files, bg |-> hex, store |-> NoStore,
                         img |-> NoImage, img2 |-> NoImage]

StitchFill ==
    /\ probe.op = "stitch" /\ probe.stage = "input"
    /\ \E order \in Orders(DOMAIN probe.files) :
          probe' = [probe EXCEPT !.stage = "filled",
                                 !.store = WriteAll(NoStore, probe.files, order, 1)]
    /\ UNCHANGED mainVars

StitchOnce ==
    /\ probe.op = "stitch" /\ probe.stage = "filled"
    /\ probe' = [probe EXCEPT !.stage = "stitched",
                              !.img = stitch_from_folder(probe.store, probe.cells, probe.n,
                                                         BgOf(probe.bg))]
    /\ UNCHANGED mainVars

StitchAgain ==
    /\ probe.op = "stitch" /\ probe.stage = "stitched"
    /\ probe' = [probe EXCEPT !.stage = "again",
                              !.img2 = stitch_from_folder(probe.store, probe.cells, probe.n,
                                                          BgOf(probe.bg))]
    /\ UNCHANGED mainVars

StitchNext ==
    \/ StitchFill
    \/ StitchOnce
    \/ StitchAgain

SpecStitch == StitchInit /\ [][StitchNext]_vars

-----------------------------------------------------------------------------
(* latlon_to_tile applied alone, to latitudes and longitudes over their    *)
(* whole ranges, ends included, at small zooms and at the program's zoom.  *)

MaxTileZoom == 4       \* largest of the small zooms given to latlon_to_tile

TileZooms == (0..MaxTileZoom) \cup {TILE_ZOOM}
TileLats == {-900, -MERCATOR_MAX, -450, 0, 450, MERCATOR_MAX, 900}
TileLons == {-1800, -1799, -900, -1, 0, 1, 900, 1799, 1800}

TileInit ==
    /\ MainInit
    /\ probe \in {[op |-> "tile", stage |-> "input", lat |-> lat, lon |-> lon, z |-> z,
                   tile |-> <<0, 0>>] :
                  lat \in TileLats, lon \in TileLons, z \in TileZooms}

TileApply ==
    /\ probe.op = "tile" /\ probe.stage = "input"
    /\ probe' = [probe EXCEPT !.stage = "output",
                              !.tile = latlon_to_tile(probe.lat, probe.lon, probe.z)]
    /\ UNCHANGED mainVars

TileNext == TileApply

SpecTile == TileInit /\ [][TileNext]_vars

-----------------------------------------------------------------------------
(* Reading the log of a cell's handling.                                   *)

LogEvs(name) == {i \in 1..Len(fetchLog) : fetchLog[i].ev = name}
Called == fetchLog # <<>> /\ fetchLog[1].ev = "call"
LastEv == fetchLog[Len(fetchLog)]

\* every GET of the latest cell failed, and download_tile has returned
FetchExhausted ==
    /\ pc \in {"pace", "loop", "build", "done"}
    /\ Called
    /\ LogEvs("get") # {}
    /\ LogEvs("ok") = {}

\* the colour a missing tile is rendered in, from the command line
ExpectedFill ==
    IF args.background_hex = GoodHex THEN <<255, 85, 255, 255>> ELSE <<0, 0, 0, 0>>

\* the corner pixels of the slot of cell i in an image stitched from coords_meta
SlotCorners(img, i) ==
    LET h == args.grid_size \div 2
        x0 == (coords_meta[i].dx + h) * img.tile[1]
        y0 == (coords_meta[i].dy + h) * img.tile[2]
    IN {x0, x0 + img.tile[1] - 1} \X {y0, y0 + img.tile[2] - 1}

SlotIsFill(img, i) ==
    \A q \in SlotCorners(img, i) : PixelAt(img, q[1], q[2]) = ExpectedFill

ZeroLength(k) == Exists(store, k) /\ Size(store, k) = 0

InputsValid ==
    /\ parse_wplace_url(args.url).ok
    /\ args.grid_size >= 1
    /\ args.background_hex # BadHex

-----------------------------------------------------------------------------
\* C1: a tile whose every GET fails gets exactly `retries` GET attempts and
\* then a zero-length marker, and download_tile returns; the loop stays
\* inside the grid and the run reaches build only after the last cell; a run
\* with valid inputs exits 0 with the image saved, and in the saved image
\* the slot of every cell whose tile is zero-length (the exhausted one
\* included) is the background fill.
C1_RetryExhaustion ==
    /\ (FetchExhausted /\ args.retries >= 1) =>
          /\ Cardinality(LogEvs("get")) = args.retries
          /\ LastEv.ev = "write" /\ LastEv.data = <<>>
          /\ Cardinality(LogEvs("write")) = 1
          /\ (pc = "pace" => ZeroLength(LastEv.key))
    /\ pc \in {"get", "backoff", "pace"} => index \in 1..Len(coords_meta)
    /\ pc \in {"build", "done"} => index = Len(coords_meta) + 1
    /\ (pc = "done" /\ InputsValid) =>
          /\ exitCode = 0
          /\ outFile.ok
          /\ \A i \in 1..Len(coords_meta) :
                ZeroLength(CellKey(coords_meta[i])) => SlotIsFill(outFile, i)
          /\ FetchExhausted => SlotIsFill(outFile, Len(coords_meta))

\* a run of four cells in which the last tile failed on every attempt and got its marker,
\* saved with a background colour
C1_Witness ==
    /\ pc = "done" /\ exitCode = 0 /\ outFile.ok
    /\ args.retries >= 2 /\ args.grid_size = 2 /\ args.background_hex = GoodHex
    /\ FetchExhausted
    /\ Cardinality(LogEvs("get")) = args.retries
    /\ \E i \in 1..3 : ~ZeroLength(CellKey(coords_meta[i]))
    /\ SlotIsFill(outFile, 4)

-----------------------------------------------------------------------------
\* C2: the log of one fetch is call, then attempts numbered 1, 2, ... up to
\* at most `retries`; each GET is answered; a success is followed by the
\* write of its body and nothing else; a failure of attempt k < retries is
\* followed by a sleep of 500*k ms and then attempt k+1; the failure of
\* attempt `retries` is followed by the marker write and nothing else.
StepOk(i) ==
    LET cur == fetchLog[i]
        prev == fetchLog[i - 1]
    IN  CASE cur.ev = "get" ->
               /\ cur.n >= 1 /\ cur.n <= args.retries
               /\ \/ prev.ev = "call" /\ cur.n = 1
                  \/ prev.ev = "sleep" /\ i >= 3 /\ fetchLog[i - 2].n = cur.n - 1
          [] cur.ev \in {"ok", "fail"} ->
               prev.ev = "get" /\ prev.n = cur.n
          [] cur.ev = "sleep" ->
               /\ prev.ev = "fail" /\ prev.n < args.retries
               /\ cur.n = 500 * prev.n
          [] cur.ev = "write" ->
               /\ i = Len(fetchLog)
               /\ \/ prev.ev = "ok" /\ cur.data = prev.data
                  \/ prev.ev = "fail" /\ prev.n = args.retries /\ cur.data = <<>>
          [] OTHER -> FALSE

C2_RetryProtocol ==
    /\ fetchLog # <<>> => fetchLog[1].ev = "call"
    /\ \A i \in 2..Len(fetchLog) : StepOk(i)
    /\ pc = "get" => Called /\ LastEv.ev \in {"call", "sleep"} /\ attempt = Cardinality(LogEvs("get")) + 1
    /\ pc = "backoff" => Called /\ LastEv.ev = "fail" /\ LastEv.n = attempt
    /\ (pc = "pace" /\ Called /\ args.retries >= 1) =>
          /\ LastEv.ev = "write"
          /\ store[LastEv.key] = LastEv.data
          /\ LastEv.key = CellKey(coords_meta[index])

\* a fetch that failed once, slept 500 ms and then wrote the body of attempt 2
C2_Witness ==
    /\ pc = "pace"
    /\ Len(fetchLog) = 7
    /\ fetchLog[3].ev = "fail" /\ fetchLog[4].ev = "sleep" /\ fetchLog[4].n = 500
    /\ fetchLog[5].ev = "get" /\ fetchLog[5].n = 2
    /\ fetchLog[6].ev = "ok" /\ fetchLog[6].data # <<>>
    /\ fetchLog[7].ev = "write" /\ store[fetchLog[7].key] = fetchLog[6].data

-----------------------------------------------------------------------------
\* The decision on the latest cell, read in the states that follow LoopStep
\* before any write: the file is as LoopStep found it.
Decided == pc \in {"get", "pace"} /\ Len(fetchLog) <= 1
Bypassed == fetchLog = <<>>
CurKey == CellKey(coords_meta[index])

\* C3 as stated: with --skip-existing, download_tile is bypassed exactly when
\* a non-empty file exists; an absent or zero-length file is fetched.
C3_SkipOnlyNonEmpty ==
    (Decided /\ args.skip_existing) =>
        (Bypassed <=> (Exists(store, CurKey) /\ Size(store, CurKey) > 0))

\* C3 amended: with --skip-existing, download_tile is bypassed exactly when
\* the file exists, zero-length or not; without it, exactly when a non-empty
\* file exists.
C3_SkipWhenExists ==
    Decided =>
        IF args.skip_existing
        THEN Bypassed <=> Exists(store, CurKey)
        ELSE Bypassed <=> (Exists(store, CurKey) /\ Size(store, CurKey) > 0)

\* with --skip-existing, a zero-length file was found and the fetch bypassed
C3_Witness ==
    /\ Decided /\ args.skip_existing /\ Bypassed
    /\ ZeroLength(CurKey)

-----------------------------------------------------------------------------
\* C4: in every step of every run, a file that is non-empty keeps its bytes,
\* and a write goes to a file that was absent or zero-length.
C4_NonEmptyNeverRewritten ==
    [][ /\ \A k \in DOMAIN store :
              store[k] # <<>> => (k \in DOMAIN store' /\ store'[k] = store[k])
        /\ Len(written') > Len(written) =>
              LET k == written'[Len(written')]
              IN  ~Exists(store, k) \/ store[k] = <<>>
      ]_vars

\* a second run without --skip-existing found downloaded content and left it
C4_Witness ==
    /\ runs = 2 /\ ~args.skip_existing /\ args.retries >= 1
    /\ Decided /\ Bypassed
    /\ Exists(store, CurKey) /\ store[CurKey] # <<>>

-----------------------------------------------------------------------------
Count(seq, k) == Cardinality({i \in 1..Len(seq) : seq[i] = k})

\* the cells whose handling is over, as far as writing goes
HandledUpTo == IF pc = "pace" THEN index ELSE index - 1

\* C5 as stated, read for retries >= 1: every fetch writes exactly once
\* before it returns, and the tile of a fetched cell has been written exactly
\* once in the run.
C5_OneWritePerTile ==
    (pc = "pace" /\ Called /\ args.retries >= 1) =>
        /\ Cardinality(LogEvs("write")) = 1
        /\ Count(written, CurKey) = 1

\* C5 amended: a fetch with retries >= 1 writes exactly once before it
\* returns, the body of the successful response or the zero-length marker,
\* and a fetch with retries <= 0 writes nothing; a bypassed cell is not
\* written; so a tile is written at most once per cell of the grid that
\* addresses it, which is more than once for a tile that two cells address.
C5_OneWritePerFetch ==
    /\ pc = "pace" =>
          IF Called /\ args.retries >= 1
          THEN /\ Cardinality(LogEvs("write")) = 1
               /\ LastEv.ev = "write" /\ LastEv.key = CurKey
               /\ store[CurKey] = LastEv.data
               /\ \/ fetchLog[Len(fetchLog) - 1].ev = "ok"
                     /\ LastEv.data = fetchLog[Len(fetchLog) - 1].data
                  \/ fetchLog[Len(fetchLog) - 1].ev = "fail" /\ LastEv.data = <<>>
               /\ written # <<>> /\ written[Len(written)] = CurKey
          ELSE LogEvs("write") = {}
    /\ pc \in {"loop", "get", "backoff", "pace", "build", "done"} =>
          /\ Len(written) <= HandledUpTo
          /\ \A i \in 1..Len(coords_meta) :
                Count(written, CellKey(coords_meta[i])) <=
                    Cardinality({j \in 1..HandledUpTo :
                                   CellKey(coords_meta[j]) = CellKey(coords_meta[i])})

\* a run in which one tile, addressed by two cells, was written twice
C5_Witness ==
    /\ pc = "done" /\ exitCode = 0
    /\ \E i \in 1..Len(coords_meta) : Count(written, CellKey(coords_meta[i])) = 2

-----------------------------------------------------------------------------
\* C6: when a run ends in an error on an invalid input (share URL, hex
\* colour or grid size), no GET has been issued and no tile written.
C6_InputErrorsFailFast ==
    (pc = "done" /\ exitCode = 1 /\ ~InputsValid) =>
        (~netUsed /\ written = <<>>)

-----------------------------------------------------------------------------
Offsets(cs) == {<<cs[i].dx, cs[i].dy>> : i \in 1..Len(cs)}

\* the range R of the grid: -h..h-1 for an even size, -h..h for an odd one
R(n) == IF n % 2 = 0 THEN (-Half(n))..(Half(n) - 1) ELSE (-Half(n))..Half(n)

\* C7: the grid of size n has n * n cells, and their offsets are the pairs
\* of R x R, each once, for even sizes as for odd ones.
C7_GridShape ==
    probe.stage \in {"built", "stitched"} =>
        /\ Len(probe.cells) = probe.n * probe.n
        /\ Offsets(probe.cells) = R(probe.n) \X R(probe.n)
        /\ \A i, j \in 1..Len(probe.cells) :
              (probe.cells[i].dx = probe.cells[j].dx /\ probe.cells[i].dy = probe.cells[j].dy)
                  => i = j

\* a grid of the even size 4, built on -2..1
C7_Witness ==
    /\ probe.stage = "built" /\ probe.n = 4
    /\ Len(probe.cells) = 16
    /\ Offsets(probe.cells) = (-2..1) \X (-2..1)

-----------------------------------------------------------------------------
RowMajor(cs, n) ==
    \A k \in 1..Len(cs) :
        /\ cs[k].dy = -Half(n) + ((k - 1) \div n)
        /\ cs[k].dx = -Half(n) + ((k - 1) % n)

GetCount(log) == Cardinality({i \in 1..Len(log) : log[i].ev = "get"})

\* C8: the cells are in row-major order, dy outer and dx inner, both
\* ascending; the loop handles them one by one in that order: every GET is
\* for the cell at the loop's index, and the index moves by one, once the
\* fetch of its cell has returned, the tile written or every retry used.
C8_RowMajorSequential ==
    [][ /\ pc' \in {"loop", "get", "backoff", "pace", "build"} =>
              /\ Len(coords_meta') = Max2(args'.grid_size, 0) * Max2(args'.grid_size, 0)
              /\ RowMajor(coords_meta', args'.grid_size)
        /\ GetCount(fetchLog') > GetCount(fetchLog) =>
              /\ pc = "get" /\ index' = index
              /\ fetchLog'[Len(fetchLog) + 1].ev = "get"
              /\ fetchLog'[Len(fetchLog) + 1].key = CellKey(coords_meta[index])
        /\ index' # index =>
              \/ pc = "pace" /\ index' = index + 1 /\ coords_meta' = coords_meta
                 /\ (Called /\ args.retries >= 1 =>
                        \/ LastEv.ev = "write" /\ fetchLog[Len(fetchLog) - 1].ev = "ok"
                        \/ FetchExhausted)
              \/ pc \in {"idle", "done"} /\ index' = 1
        /\ (pc = "loop" /\ pc' = "get") =>
              /\ index' = index
              /\ Len(written) <= index - 1
      ]_vars

\* the third cell of a grid of size 2 is being fetched, after the first two
C8_Witness ==
    /\ pc = "get" /\ args.grid_size = 2 /\ index = 3
    /\ coords_meta[3].dx = -1 /\ coords_meta[3].dy = 0
    /\ written = <<CellKey(coords_meta[1]), CellKey(coords_meta[2])>>

-----------------------------------------------------------------------------
Clamp(y, n) == IF y < 0 THEN 0 ELSE IF y > n - 1 THEN n - 1 ELSE y

\* C9: the tile of a cell has x in 0..n-1, congruent to cx + dx modulo
\* n = 2^zoom, and y clamped to 0..n-1; on the left edge (cx = 0) a negative
\* dx gives x = n - |dx|, and on the top edge (cy = 0) a negative dy gives
\* y = 0.
C9_WrapClamp ==
    probe.stage \in {"built", "stitched"} =>
        LET n == Pow2(probe.z)
        IN  \A i \in 1..Len(probe.cells) :
              LET c == probe.cells[i]
              IN  /\ c.x \in 0..(n - 1)
                  /\ (c.x - (probe.cx + c.dx)) % n = 0
                  /\ c.y = Clamp(probe.cy + c.dy, n)
                  /\ c.y \in 0..(n - 1)
                  /\ (probe.cx = 0 /\ c.dx < 0) => c.x = n + c.dx
                  /\ (probe.cy = 0 /\ c.dy < 0) => c.y = 0

\* at zoom 11, centre (0, 0): a cell one step left wraps to x = 2047 and a
\* cell one step up stays at y = 0
C9_Witness ==
    /\ probe.stage = "built" /\ probe.z = TILE_ZOOM
    /\ probe.cx = 0 /\ probe.cy = 0
    /\ \E i \in 1..Len(probe.cells) :
          /\ probe.cells[i].dx = -1 /\ probe.cells[i].dy = -1
          /\ probe.cells[i].x = 2047 /\ probe.cells[i].y = 0

-----------------------------------------------------------------------------
\* the tile size the stitcher works with under ProbeStore
ProbeTileSize ==
    IF probe.tile = <<0, 0>> THEN DEFAULT_FALLBACK_TILE ELSE probe.tile

Slots(n, tw, th) == {<<c * tw, r * th>> : c \in 0..(n - 1), r \in 0..(n - 1)}

\* C10: the stitcher pastes the cell of offset (dx, dy) at column dx + h,
\* row dy + h, with h = n div 2: the cells map one-to-one onto the n * n
\* slots of the canvas, none outside it; for n = 3 the centre cell is at
\* (1, 1), for n = 4 the cell (-1, -1) is at (1, 1).
C10_PasteSlots ==
    probe.stage = "stitched" =>
        LET n == probe.n
            tw == ProbeTileSize[1]
            th == ProbeTileSize[2]
            ps == probe.img.pastes
        IN  /\ probe.img.ok
            /\ probe.img.tile = <<tw, th>>
            /\ probe.img.size = <<n * tw, n * th>>
            /\ Len(ps) = n * n
            /\ \A i \in 1..Len(ps) :
                  /\ ps[i].at = <<(probe.cells[i].dx + Half(n)) * tw,
                                  (probe.cells[i].dy + Half(n)) * th>>
                  /\ ps[i].at[1] >= 0 /\ ps[i].at[1] + tw <= probe.img.size[1]
                  /\ ps[i].at[2] >= 0 /\ ps[i].at[2] + th <= probe.img.size[2]
                  /\ (n = 3 /\ probe.cells[i].dx = 0 /\ probe.cells[i].dy = 0)
                        => ps[i].at = <<tw, th>>
                  /\ (n = 4 /\ probe.cells[i].dx = -1 /\ probe.cells[i].dy = -1)
                        => ps[i].at = <<tw, th>>
            /\ {ps[i].at : i \in 1..Len(ps)} = Slots(n, tw, th)
            /\ \A i, j \in 1..Len(ps) : ps[i].at = ps[j].at => i = j

\* a stitched grid of size 4 with 1 x 2 tiles: the cell (-1, -1) is pasted
\* at column 1, row 1
C10_Witness ==
    /\ probe.stage = "stitched" /\ probe.n = 4 /\ probe.tile = <<1, 2>>
    /\ \E i \in 1..Len(probe.cells) :
          /\ probe.cells[i].dx = -1 /\ probe.cells[i].dy = -1
          /\ probe.img.pastes[i].at = <<1, 2>>

-----------------------------------------------------------------------------
\* what the stand-alone stitcher was given for cell i
FileOf(i) ==
    LET k == CellKey(probe.cells[i])
    IN  IF k \in DOMAIN probe.files THEN <<"file", probe.files[k]>> ELSE <<"absent">>

Unusable(i) == FileOf(i) \in {<<"absent">>, <<"file", <<>>>>, <<"file", TruncatedPng>>}

StitchFillColour == IF probe.bg = GoodHex THEN <<255, 85, 255, 255>> ELSE <<0, 0, 0, 0>>

SlotOrigin(i) ==
    <<(probe.cells[i].dx + probe.n \div 2) * probe.img.tile[1],
      (probe.cells[i].dy + probe.n \div 2) * probe.img.tile[2]>>

SlotCornersOf(i) ==
    {SlotOrigin(i)[1], SlotOrigin(i)[1] + probe.img.tile[1] - 1}
        \X {SlotOrigin(i)[2], SlotOrigin(i)[2] + probe.img.tile[2] - 1}

\* C11: stitch_from_folder raises for no directory; a cell whose file is
\* absent, zero-length or undecodable gets, at its slot, a block of the tile
\* size in the background colour, transparent when none is set, and the
\* slot shows that colour in the canvas; every other cell gets its decoded
\* image at its slot.
C11_MissingTileFill ==
    probe.stage \in {"stitched", "again"} =>
        /\ probe.img.ok
        /\ Len(probe.img.pastes) = Len(probe.cells)
        /\ \A i \in 1..Len(probe.cells) :
              LET p == probe.img.pastes[i]
              IN  /\ p.at = SlotOrigin(i)
                  /\ IF Unusable(i)
                     THEN /\ p.fill
                          /\ p.size = probe.img.tile
                          /\ p.rgba = StitchFillColour
                          /\ \A q \in SlotCornersOf(i) :
                                PixelAt(probe.img, q[1], q[2]) = StitchFillColour
                     ELSE /\ ~p.fill
                          /\ p.size = <<FileOf(i)[2][2], FileOf(i)[2][3]>>
                          /\ p.rgba = <<FileOf(i)[2][4], FileOf(i)[2][4], FileOf(i)[2][4], 255>>

\* a grid of four cells stitched with a background colour: one file absent,
\* one zero-length, one undecodable, one an image
C11_Witness ==
    /\ probe.stage = "stitched" /\ probe.n = 2 /\ probe.bg = GoodHex
    /\ FileOf(1) = <<"absent">>
    /\ FileOf(2) = <<"file", <<>>>>
    /\ FileOf(3) = <<"file", TruncatedPng>>
    /\ FileOf(4) = <<"file", SmallPng>>
    /\ \A i \in 1..3 : probe.img.pastes[i].rgba = <<255, 85, 255, 255>>

-----------------------------------------------------------------------------
-----------------------------------------------------------------------------
\* the cells whose file opens, in the order of the grid
Opens(i) == ~Unusable(i)

FirstOpen == {i \in 1..Len(probe.cells) : Opens(i) /\ \A j \in 1..(i - 1) : ~Opens(j)}

\* C18: the tile size is the image size of the first cell, in row-major
\* order, whose file opens, cells before it that are absent, zero-length or
\* undecodable being passed over, and 1000 x 1000 when no file opens; the
\* canvas is gridSize times that size, and the slot of every cell starts at
\* a multiple of it, whatever the sizes of the other images.
C18_TileSizeOnce ==
    probe.stage \in {"stitched", "again"} =>
        LET tile == IF FirstOpen = {} THEN <<1000, 1000>>
                    ELSE LET f == FileOf(CHOOSE i \in FirstOpen : TRUE)[2]
                         IN <<f[2], f[3]>>
        IN  /\ probe.img.ok
            /\ probe.img.tile = tile
            /\ probe.img.size = <<tile[1] * probe.n, tile[2] * probe.n>>
            /\ \A i \in 1..Len(probe.cells) :
                  probe.img.pastes[i].at =
                      <<(probe.cells[i].dx + probe.n \div 2) * tile[1],
                        (probe.cells[i].dy + probe.n \div 2) * tile[2]>>

\* the first cell's file does not decode, the second is 2 x 1, a later one
\* is 1 x 1: the tile size is 2 x 1 and the canvas 4 x 2
C18_Witness ==
    /\ probe.stage = "stitched" /\ probe.n = 2
    /\ FileOf(1) = <<"file", TruncatedPng>>
    /\ FileOf(2) = <<"file", WidePng>>
    /\ FileOf(4) = <<"file", SmallPng>>
    /\ probe.img.tile = <<2, 1>> /\ probe.img.size = <<4, 2>>
    /\ probe.img.pastes[4].at = <<2, 1>> /\ probe.img.pastes[4].size = <<1, 1>>

-----------------------------------------------------------------------------
\* C12 as stated: a run in which a write of a tile file failed ends with a
\* non-zero exit status and without an output image.
C12_WriteFailureFatal ==
    (pc = "done" /\ LogEvs("wfail") # {}) => (exitCode # 0 /\ ~outFile.ok)

\* C12 amended: a failed write of a tile file is caught in download_tile
\* like a failed request: it counts as a failed attempt, followed by the
\* backoff sleep and the next request, or on the last attempt by the write
\* of the marker, whose failure is passed over; the run goes on to the next
\* cell and to stitching, and ends with status 0 and the image saved, a cell
\* whose file does not open being shown as a missing tile.
C12_WriteFailureSwallowed ==
    /\ LogEvs("wfail") # {} => exitCode = 0
    /\ (fetchLog # <<>> /\ LastEv.ev = "wfail") =>
          /\ pc \in {"backoff", "marker", "pace", "loop", "build", "done"}
          /\ pc = "backoff" => attempt < args.retries
          /\ pc = "marker" => attempt = args.retries
    /\ Cardinality(LogEvs("get")) <= args.retries
    /\ Cardinality(LogEvs("wfail")) <= args.retries + 1
    /\ pc = "done" =>
          /\ exitCode = 0
          /\ outFile.ok
          /\ \A i \in 1..Len(coords_meta) :
                ~safe_open_png(store, CellKey(coords_meta[i])).ok => outFile.pastes[i].fill

\* a run that ended with status 0 and its image saved, after the writes of
\* the last tile's body and of its marker had failed
C12_Witness ==
    /\ pc = "done" /\ exitCode = 0 /\ outFile.ok
    /\ Cardinality(LogEvs("wfail")) >= 2
    /\ LastEv.ev = "wfail"
    /\ LogEvs("write") = {}
    /\ outFile.pastes[Len(coords_meta)].fill

-----------------------------------------------------------------------------
\* C13: a run interrupted in its download pass ends with a non-zero exit
\* status and without an output image, and every file of the tile directory
\* holds a whole response body or is a zero-length marker: none holds a part
\* of a body.
C13_InterruptClean ==
    (pc = "done" /\ fetchLog # <<>> /\ LastEv.ev = "interrupt") =>
        /\ exitCode # 0
        /\ ~outFile.ok
        /\ \A k \in DOMAIN store : store[k] \in Bodies

-----------------------------------------------------------------------------
Total == Len(coords_meta)

\* the cells of the current run whose handling, progress report included, is over
CellsDone == index - 1

Threshold(total, m) ==
    IF (total * m) \div 100 >= 1 THEN (total * m) \div 100 ELSE 1

PrintedAt(m) == {j \in 1..Len(printed) : printed[j].m = m}

\* C14: in a run over total >= 1 cells, whatever the fetches did, the
\* milestone m has been reported, once, exactly when the cell of index
\* max(1, floor(total * m / 100)) has been handled, and it was reported at
\* that index; the reports are in ascending order of m, and once the pass is
\* over there are the four of them.
C14_Milestones ==
    (pc \in {"loop", "get", "backoff", "pace", "build", "done"} /\ Total >= 1) =>
        /\ \A m \in {25, 50, 75, 100} :
              /\ Cardinality(PrintedAt(m)) <= 1
              /\ PrintedAt(m) # {} <=> CellsDone >= Threshold(Total, m)
              /\ \A j \in PrintedAt(m) : printed[j].index = Threshold(Total, m)
        /\ \A j \in 1..Len(printed) : printed[j].m \in {25, 50, 75, 100}
        /\ \A i, j \in 1..Len(printed) : i < j => printed[i].m < printed[j].m
        /\ pc \in {"build", "done"} => Len(printed) = 4

\* a pass over four cells, a cache hit and an exhausted fetch among them,
\* has reported 25% at cell 1, 50% at 2, 75% at 3 and 100% at 4
C14_Witness ==
    /\ pc = "build" /\ Total = 4 /\ runs = 2
    /\ printed = <<[m |-> 25, index |-> 1], [m |-> 50, index |-> 2],
                   [m |-> 75, index |-> 3], [m |-> 100, index |-> 4]>>
    /\ Len(written) \in 1..3
    /\ FetchExhausted

-----------------------------------------------------------------------------
\* C15: with a positive delay, the pass sleeps once after each cell but the
\* last: after i cells there have been min(i, total - 1) pacing sleeps, the
\* sleep after cell i coming before cell i + 1 is taken up, and total - 1 in
\* all when stitching starts; with no delay there is none.
C15_Pacing ==
    [][ /\ (pc' \in {"loop", "get", "backoff", "pace", "build"} /\ Len(coords_meta') >= 1) =>
              IF args'.delay > 0
              THEN /\ paced' = Min2(index' - 1, Len(coords_meta') - 1)
                   /\ pc' = "build" => paced' = Len(coords_meta') - 1
              ELSE paced' = 0
        /\ paced' = paced + 1 =>
              /\ pc = "pace" /\ pc' = "loop"
              /\ args.delay > 0
              /\ index < Len(coords_meta) /\ index' = index + 1
              /\ paced' = index
        /\ (pc = "pace" /\ index = Len(coords_meta)) => paced' = paced
      ]_vars

\* four cells handled with a delay of 250 ms: three sleeps, stitching next
C15_Witness ==
    /\ pc = "build" /\ args.delay = 250 /\ Total = 4
    /\ paced = 3

-----------------------------------------------------------------------------
\* C17: for every zoom z >= 0, every latitude of [-90, 90] and every
\* longitude of [-180, 180], latlon_to_tile returns a tile (x, y) with
\* 0 <= x < 2^z and 0 <= y < 2^z: longitude 180 gives column 0, a latitude
\* beyond the Mercator limit the first or the last row.
C17_TileInRange ==
    probe.stage = "output" =>
        /\ probe.tile[1] \in 0..(Pow2(probe.z) - 1)
        /\ probe.tile[2] \in 0..(Pow2(probe.z) - 1)
        /\ probe.lon = 1800 => probe.tile[1] = 0
        /\ probe.lat = 900 => probe.tile[2] = 0
        /\ probe.lat = -900 => probe.tile[2] = Pow2(probe.z) - 1

\* latitude -90, longitude 180 at zoom 11: column 0, last row
C17_Witness ==
    /\ probe.stage = "output" /\ probe.z = TILE_ZOOM
    /\ probe.lat = -900 /\ probe.lon = 1800
    /\ probe.tile = <<0, 2047>>

-----------------------------------------------------------------------------
\* C19: in a run with retries <= 0, download_tile, when called, issues no
\* GET and writes nothing, neither content nor marker: no step of the run
\* changes the tile directory; the run still ends, with status 0 and the
\* image saved when its inputs are valid, and a tile without a file is
\* shown as a missing tile and still has no file.
C19_NoAttempts ==
    [][ /\ (args.retries <= 0 /\ pc \in {"loop", "pace", "build"}) =>
              /\ store' = store
              /\ ~netUsed' /\ written' = <<>>
        /\ args'.retries <= 0 =>
              /\ pc' \notin {"get", "backoff"}
              /\ (pc' = "pace" /\ Called') =>
                    /\ Len(fetchLog') = 1
                    /\ (~Exists(store', CurKey') \/ ZeroLength(CurKey)')
              /\ (pc' = "done" /\ InputsValid') =>
                    /\ exitCode' = 0
                    /\ outFile'.ok
                    /\ \A i \in 1..Len(coords_meta') :
                          ~Exists(store', CellKey(coords_meta'[i])) => outFile'.pastes[i].fill
      ]_vars

\* a first run of four cells with retries 0: download_tile was called, the
\* directory is still empty, the image is saved with every cell a missing tile
C19_Witness ==
    /\ pc = "done" /\ runs = 1 /\ args.retries = 0 /\ Total = 4
    /\ Called /\ Len(fetchLog) = 1
    /\ store = NoStore /\ ~netUsed
    /\ exitCode = 0 /\ outFile.ok
    /\ \A i \in 1..4 : outFile.pastes[i].fill

-----------------------------------------------------------------------------
InRun == pc \in {"loop", "get", "backoff", "pace", "build"}

\* C20: every run ends: for one cell there are at most max(retries, 0)
\* GETs, the loop's index moves through the cells and stops after the last,
\* and a run that has started reaches its end, with the image saved and
\* status 0, or with status 1.
C20_Terminates ==
    /\ [](/\ Cardinality(LogEvs("get")) <= Max2(args.retries, 0)
          /\ attempt <= Max2(args.retries, 0)
          /\ index \in 1..(Len(coords_meta) + 1)
          /\ pc = "done" => \/ exitCode = 0 /\ outFile.ok
                            \/ exitCode = 1 /\ ~outFile.ok)
    /\ [][index' >= index \/ pc \in {"idle", "done"}]_vars
    /\ (InRun ~> pc = "done")

\* a run of four cells ended with the image saved after a fetch had used
\* every attempt
C20_Witness ==
    /\ pc = "done" /\ exitCode = 0 /\ outFile.ok /\ Total = 4
    /\ args.retries = MaxRetries
    /\ FetchExhausted /\ Cardinality(LogEvs("get")) = MaxRetries

====
